---- MODULE Spec2Model ----
(***************************************************************************)
(* A model of the angle value type of src/src/lib.rs: Angle<T> with its    *)
(* unit conversion, normalization, minimal distance, equality and          *)
(* arithmetic operators, over the payload types i8, u8, i16 and a binary   *)
(* floating-point type.                                                    *)
(*                                                                         *)
(* Payloads are integers.  An integer type holds its values directly.  The *)
(* floating-point type is a binary format with PrecBits bits of mantissa   *)
(* and round-to-nearest-even, the arithmetic of f64 at a reduced           *)
(* precision: the finite value n stands for n * 2^-FracBits, the finite    *)
(* values are m * 2^e with m < 2^PrecBits and e in 0..MaxExp, and PosInf,  *)
(* NegInf and NaN stand for the two infinities and not-a-number.  The sign *)
(* of a zero is not represented (-0.0 == 0.0 in every comparison the code  *)
(* makes).                                                                 *)
(***************************************************************************)
EXTENDS Integers, FiniteSets, Sequences, TLC

\* ty:     the payload type T of the angles
\* checks: whether the build has integer overflow checks on (they change
\*         nothing for the floating-point type, which is run with them on)
\* op:     the operation that has run ("init" before any)
\* recv:   the receiver (left operand) of the operation, as it was before it
\* rhs:    the angle operand; third: the third angle of an equality check
\* x:      the scalar operand
\* out:    what the operation returned or, for a compound assignment, the
\*         value of the receiver after it
\* rel:    the results of the == comparisons among recv (a), rhs (b), third (c)
VARIABLES ty, checks, op, recv, rhs, third, x, out, rel

vars == <<ty, checks, op, recv, rhs, third, x, out, rel>>

----------------------------------------------------------------------------
(* Bounds of the model. *)

\* mantissa bits of the floating-point type (53 for f64)
PrecBits == 6
\* the smallest positive floating-point value is 2^-FracBits
FracBits == 5
\* the largest exponent of a floating-point value, in units of 2^-FracBits
MaxExp == 9
\* integer payloads of the 16-bit type reach MaxTurns full turns of 360
MaxTurns == 2

----------------------------------------------------------------------------
(* Program constants. *)

\* std::f64::consts::PI as the ratio PiNum / PiDen (355/113, above pi by 2.7e-7)
PiNum == 355
PiDen == 113
HalfTurnDeg == 180
FullTurnDeg == 360

----------------------------------------------------------------------------
(* The floating-point type. *)

Pow2(k) == 2 ^ k

AbsInt(n) == IF n < 0 THEN -n ELSE n

MaxFin == (Pow2(PrecBits) - 1) * Pow2(MaxExp)
PosInf == MaxFin + 1
NegInf == -PosInf
NaN == MaxFin + 2

IsNaN(a) == a = NaN
IsInf(a) == a = PosInf \/ a = NegInf
IsFinite(a) == ~IsNaN(a) /\ ~IsInf(a)

\* the exponent of a magnitude q: the least e with q / 2^e below 2^PrecBits
RECURSIVE ExpOf(_)
ExpOf(q) == IF q < Pow2(PrecBits) THEN 0 ELSE 1 + ExpOf(q \div 2)

\* a / den (a >= 0, den > 0, in units of 2^-FracBits) rounded to the nearest
\* value of the format, ties to the even mantissa; PosInf on overflow
RoundMag(a, den) ==
    LET q0 == a \div den
        r0 == a % den
    IN  IF q0 >= Pow2(PrecBits + MaxExp) THEN PosInf
        ELSE LET e == ExpOf(q0)
                 m == q0 \div Pow2(e)
                 r1 == q0 % Pow2(e)
                 cmp == IF e = 0
                        THEN (IF 2 * r0 > den THEN 1 ELSE IF 2 * r0 = den THEN 0 ELSE -1)
                        ELSE (IF r1 > Pow2(e - 1) \/ (r1 = Pow2(e - 1) /\ r0 > 0) THEN 1
                              ELSE IF r1 = Pow2(e - 1) /\ r0 = 0 THEN 0 ELSE -1)
                 up == cmp > 0 \/ (cmp = 0 /\ m % 2 = 1)
                 res == (IF up THEN m + 1 ELSE m) * Pow2(e)
             IN  IF res > MaxFin THEN PosInf ELSE res

RoundQ(num, den) == IF num < 0 THEN -RoundMag(-num, den) ELSE RoundMag(num, den)

SignOf(a) == IF a < 0 THEN -1 ELSE 1

FNeg(a) == IF IsNaN(a) THEN NaN ELSE -a

FAbs(a) == IF IsNaN(a) THEN NaN ELSE AbsInt(a)

FAdd(a, b) ==
    IF IsNaN(a) \/ IsNaN(b) THEN NaN
    ELSE IF IsInf(a) /\ IsInf(b) THEN (IF a = b THEN a ELSE NaN)
    ELSE IF IsInf(a) THEN a
    ELSE IF IsInf(b) THEN b
    ELSE RoundQ(a + b, 1)

FSub(a, b) == FAdd(a, FNeg(b))

\* the product of two finite magnitudes, from their mantissas and exponents
MulMag(a, b) ==
    IF a = 0 \/ b = 0 THEN 0
    ELSE LET ea == ExpOf(a)
             eb == ExpOf(b)
             m == (a \div Pow2(ea)) * (b \div Pow2(eb))
             sh == ea + eb - FracBits
         IN  IF sh < 0 THEN RoundMag(m, Pow2(-sh))
             ELSE IF sh >= PrecBits + MaxExp THEN PosInf
             ELSE IF m >= Pow2(PrecBits + MaxExp - sh) THEN PosInf
             ELSE RoundMag(m * Pow2(sh), 1)

FMul(a, b) ==
    IF IsNaN(a) \/ IsNaN(b) THEN NaN
    ELSE IF (IsInf(a) /\ b = 0) \/ (a = 0 /\ IsInf(b)) THEN NaN
    ELSE IF IsInf(a) \/ IsInf(b) THEN SignOf(a) * SignOf(b) * PosInf
    ELSE SignOf(a) * SignOf(b) * MulMag(AbsInt(a), AbsInt(b))

FDiv(a, b) ==
    IF IsNaN(a) \/ IsNaN(b) THEN NaN
    ELSE IF (IsInf(a) /\ IsInf(b)) \/ (a = 0 /\ b = 0) THEN NaN
    ELSE IF IsInf(a) \/ b = 0 THEN SignOf(a) * SignOf(b) * PosInf
    ELSE IF IsInf(b) THEN 0
    ELSE SignOf(a) * SignOf(b) * RoundMag(AbsInt(a) * Pow2(FracBits), AbsInt(b))

\* the remainder of the truncated division, exact, with the sign of a
FRem(a, b) ==
    IF IsNaN(a) \/ IsNaN(b) \/ IsInf(a) \/ b = 0 THEN NaN
    ELSE IF IsInf(b) THEN a
    ELSE SignOf(a) * (AbsInt(a) % AbsInt(b))

FMin(a, b) ==
    IF IsNaN(a) THEN b
    ELSE IF IsNaN(b) THEN a
    ELSE IF a < b THEN a ELSE b

FLt(a, b) == ~IsNaN(a) /\ ~IsNaN(b) /\ a < b
FLe(a, b) == ~IsNaN(a) /\ ~IsNaN(b) /\ a <= b
FGe(a, b) == ~IsNaN(a) /\ ~IsNaN(b) /\ a >= b
FEq(a, b) == ~IsNaN(a) /\ ~IsNaN(b) /\ a = b

\* a finite rational num / den as a value of the format
FConst(num, den) == RoundQ(num * Pow2(FracBits), den)

FZero == 0
FOne == FConst(1, 1)
FPi == FConst(PiNum, PiDen)
FTwoPi == FMul(FConst(2, 1), FPi)
F180 == FConst(HalfTurnDeg, 1)
F360 == FConst(FullTurnDeg, 1)

FiniteFloats == { s * m * Pow2(e) : s \in {-1, 1}, m \in 0..(Pow2(PrecBits) - 1), e \in 0..MaxExp }
AllFloats == FiniteFloats \cup {PosInf, NegInf, NaN}

----------------------------------------------------------------------------
(* The payload types. *)

Types == {"i8", "u8", "i16", "float"}

IsFloat(t) == t = "float"

IntMin(t) == IF t = "i8" THEN -128 ELSE IF t = "u8" THEN 0 ELSE -32768
IntMax(t) == IF t = "i8" THEN 127 ELSE IF t = "u8" THEN 255 ELSE 32767

InRange(t, n) == IntMin(t) <= n /\ n <= IntMax(t)

\* two's complement wrap-around of n into the range of t
Wrap(t, n) == ((n - IntMin(t)) % (IntMax(t) - IntMin(t) + 1)) + IntMin(t)

\* integer division and remainder truncate toward zero
TruncDiv(a, b) == SignOf(a) * SignOf(b) * (AbsInt(a) \div AbsInt(b))
TruncRem(a, b) == a - b * TruncDiv(a, b)

\* T::zero()
PZero(t) == IF IsFloat(t) THEN FZero ELSE 0

\* the comparisons of PartialOrd and PartialEq on T
PLt(t, a, b) == IF IsFloat(t) THEN FLt(a, b) ELSE a < b
PGe(t, a, b) == IF IsFloat(t) THEN FGe(a, b) ELSE a >= b
PEq(t, a, b) == IF IsFloat(t) THEN FEq(a, b) ELSE a = b

\* a + b, a - b, a * b on T: an integer type aborts on overflow with overflow
\* checks on (chk) and wraps around with them off
AddPanics(t, chk, a, b) == ~IsFloat(t) /\ chk /\ ~InRange(t, a + b)
PAdd(t, a, b) == IF IsFloat(t) THEN FAdd(a, b) ELSE Wrap(t, a + b)

SubPanics(t, chk, a, b) == ~IsFloat(t) /\ chk /\ ~InRange(t, a - b)
PSub(t, a, b) == IF IsFloat(t) THEN FSub(a, b) ELSE Wrap(t, a - b)

MulPanics(t, chk, a, b) == ~IsFloat(t) /\ chk /\ ~InRange(t, a * b)
PMul(t, a, b) == IF IsFloat(t) THEN FMul(a, b) ELSE Wrap(t, a * b)

\* a / b on T: an integer type aborts on a zero divisor and on MIN / -1,
\* whatever the overflow checks
DivPanics(t, chk, a, b) == ~IsFloat(t) /\ (b = 0 \/ ~InRange(t, TruncDiv(a, b)))
PDiv(t, a, b) == IF IsFloat(t) THEN FDiv(a, b)
                 ELSE IF b = 0 THEN 0 ELSE Wrap(t, TruncDiv(a, b))

\* a % b on T, for b > 0
PRem(t, a, b) == IF IsFloat(t) THEN FRem(a, b) ELSE TruncRem(a, b)

\* num::cast of the f64 num / den (>= 0) to an integer type: its integer
\* part, or None (ok FALSE) when the type cannot hold it
CastToInt(t, num, den) ==
    IF InRange(t, num \div den) THEN [ok |-> TRUE, v |-> num \div den]
    ELSE [ok |-> FALSE, v |-> 0]

----------------------------------------------------------------------------
(* Angle<T>: a unit tag and a payload. *)

Radians(v) == [tag |-> "Radians", v |-> v]
Degrees(v) == [tag |-> "Degrees", v |-> v]

Tags == {"Radians", "Degrees"}

\* what an operation yields: an angle, or the abort of a failed unwrap or of
\* the payload type's own arithmetic
Ok(a) == [st |-> "ok", tag |-> a.tag, v |-> a.v]
Panic == [st |-> "panic", tag |-> "none", v |-> 0]
Unset == [st |-> "unset", tag |-> "none", v |-> 0]

NoAngle == [tag |-> "none", v |-> 0]
NoRel == [aa |-> FALSE, ab |-> FALSE, ba |-> FALSE, bc |-> FALSE, ac |-> FALSE]

\* in_radians: v / 180.0 * PI in f64, cast back to T.  Neither cast fails: the
\* result is smaller in magnitude than v.  For an integer type the cast
\* truncates; PiNum / PiDen * v / 180 has the integer part of the f64 value
\* except where it is itself an integer, the f64 value lying just below.
InRadians(t, a) ==
    IF a.tag = "Radians" THEN a.v
    ELSE IF IsFloat(t) THEN FMul(FDiv(a.v, F180), FPi)
    ELSE IF a.v = 0 THEN 0
    ELSE SignOf(a.v) * ((AbsInt(a.v) * PiNum - 1) \div (PiDen * HalfTurnDeg))

\* the upper end of the normalized range, in T
Upper(t, tag) ==
    IF IsFloat(t) THEN [ok |-> TRUE, v |-> IF tag = "Radians" THEN FTwoPi ELSE F360]
    ELSE IF tag = "Radians" THEN CastToInt(t, 2 * PiNum, PiDen)
    ELSE CastToInt(t, FullTurnDeg, 1)

\* normalized
Normalized(t, a) ==
    LET u == Upper(t, a.tag) IN
    IF ~u.ok THEN Panic
    ELSE LET upper == u.v
             v == a.v
             normalized ==
                 IF PLt(t, v, upper) /\ PGe(t, v, PZero(t)) THEN v
                 ELSE LET w == PRem(t, v, upper)
                      IN  IF PGe(t, w, PZero(t)) THEN w ELSE PAdd(t, w, upper)
         IN  Ok([tag |-> a.tag, v |-> normalized])

\* FastPath without the min: the distance the long way round is never taken
FastPath_NoMin(d) == d

\* GeneralPath without the remainder: a difference of more than a turn is
\* not reduced
GeneralPath_NoRem(d) == FSub(FPi, FAbs(FSub(d, FPi)))

\* min_dist: the branch for two normalized radian values, and the general one
FastPath(d) == FMin(d, FSub(FTwoPi, d))
GeneralPath(d) == FSub(FPi, FAbs(FSub(FRem(d, FTwoPi), FPi)))

BothNormalized(a, b) ==
    FGe(a, FZero) /\ FLt(a, FTwoPi) /\ FGe(b, FZero) /\ FLt(b, FTwoPi)

MinDist(t, self, other) ==
    LET a == InRadians(t, self)
        b == InRadians(t, other)
        d == FAbs(FSub(a, b))
    IN  Ok(Radians(IF BothNormalized(a, b) THEN FastPath(d) ELSE GeneralPath(d)))

\* PartialEq::eq
AngleEq(t, self, other) ==
    IF self.tag = "Degrees" /\ other.tag = "Degrees" THEN PEq(t, self.v, other.v)
    ELSE PEq(t, InRadians(t, self), InRadians(t, other))

\* AddOp dispatching on the tag of the left operand alone: a Degrees angle
\* plus a Radians angle adds the raw payloads
AddOp_LeftTagOnly(t, chk, self, other) ==
    IF self.tag = "Degrees"
    THEN IF AddPanics(t, chk, self.v, other.v) THEN Panic
         ELSE Ok(Degrees(PAdd(t, self.v, other.v)))
    ELSE IF AddPanics(t, chk, InRadians(t, self), InRadians(t, other)) THEN Panic
         ELSE Ok(Radians(PAdd(t, InRadians(t, self), InRadians(t, other))))

\* Add::add and Sub::sub
AddOp(t, chk, self, other) ==
    IF self.tag = "Degrees" /\ other.tag = "Degrees"
    THEN IF AddPanics(t, chk, self.v, other.v) THEN Panic
         ELSE Ok(Degrees(PAdd(t, self.v, other.v)))
    ELSE IF AddPanics(t, chk, InRadians(t, self), InRadians(t, other)) THEN Panic
         ELSE Ok(Radians(PAdd(t, InRadians(t, self), InRadians(t, other))))

SubOp(t, chk, self, other) ==
    IF self.tag = "Degrees" /\ other.tag = "Degrees"
    THEN IF SubPanics(t, chk, self.v, other.v) THEN Panic
         ELSE Ok(Degrees(PSub(t, self.v, other.v)))
    ELSE IF SubPanics(t, chk, InRadians(t, self), InRadians(t, other)) THEN Panic
         ELSE Ok(Radians(PSub(t, InRadians(t, self), InRadians(t, other))))

\* AddAssignOp leaving the tag of the receiver as it was
AddAssignOp_KeepsTag(t, chk, self, other) ==
    IF self.tag = "Degrees" /\ other.tag = "Degrees"
    THEN IF AddPanics(t, chk, self.v, other.v) THEN Panic
         ELSE Ok(Degrees(PAdd(t, self.v, other.v)))
    ELSE IF AddPanics(t, chk, InRadians(t, self), InRadians(t, other)) THEN Panic
         ELSE Ok([tag |-> self.tag, v |-> PAdd(t, InRadians(t, self), InRadians(t, other))])

\* AddAssign::add_assign and SubAssign::sub_assign: the new value of *self
AddAssignOp(t, chk, self, other) ==
    IF self.tag = "Degrees" /\ other.tag = "Degrees"
    THEN LET a == self.v
             b == other.v
         IN  IF AddPanics(t, chk, a, b) THEN Panic
             ELSE Ok(Degrees(PAdd(t, a, b)))
    ELSE LET val == InRadians(t, self)
             r == InRadians(t, other)
         IN  IF AddPanics(t, chk, val, r) THEN Panic
             ELSE Ok(Radians(PAdd(t, val, r)))

SubAssignOp(t, chk, self, other) ==
    IF self.tag = "Degrees" /\ other.tag = "Degrees"
    THEN LET a == self.v
             b == other.v
         IN  IF SubPanics(t, chk, a, b) THEN Panic
             ELSE Ok(Degrees(PSub(t, a, b)))
    ELSE LET val == InRadians(t, self)
             r == InRadians(t, other)
         IN  IF SubPanics(t, chk, val, r) THEN Panic
             ELSE Ok(Radians(PSub(t, val, r)))

\* DivOp dividing the radian value, as the additive operators do off the
\* all-Degrees case
DivOp_Converts(t, chk, self, s) ==
    IF self.tag = "Degrees" /\ ~DivPanics(t, chk, InRadians(t, self), s)
    THEN Ok(Radians(PDiv(t, InRadians(t, self), s)))
    ELSE IF DivPanics(t, chk, self.v, s) THEN Panic
    ELSE Ok([tag |-> self.tag, v |-> PDiv(t, self.v, s)])

\* Mul<T>::mul and Div<T>::div of an angle by a scalar
MulOp(t, chk, self, s) ==
    IF MulPanics(t, chk, self.v, s) THEN Panic
    ELSE Ok([tag |-> self.tag, v |-> PMul(t, self.v, s)])

DivOp(t, chk, self, s) ==
    IF DivPanics(t, chk, self.v, s) THEN Panic
    ELSE Ok([tag |-> self.tag, v |-> PDiv(t, self.v, s)])

\* MulAssign<T>::mul_assign and DivAssign<T>::div_assign: the new value of *self
MulAssignOp(t, chk, self, s) ==
    IF MulPanics(t, chk, self.v, s) THEN Panic
    ELSE IF self.tag = "Radians" THEN Ok(Radians(PMul(t, self.v, s)))
    ELSE Ok(Degrees(PMul(t, self.v, s)))

DivAssignOp(t, chk, self, s) ==
    IF DivPanics(t, chk, self.v, s) THEN Panic
    ELSE IF self.tag = "Radians" THEN Ok(Radians(PDiv(t, self.v, s)))
    ELSE Ok(Degrees(PDiv(t, self.v, s)))

\* ScalarDivOp dividing the payload by the scalar
ScalarDivOp_AngleOverScalar(t, chk, s, a) ==
    IF DivPanics(t, chk, a.v, s) THEN Panic
    ELSE Ok([tag |-> a.tag, v |-> PDiv(t, a.v, s)])

\* Mul<Angle<$t>>::mul and Div<Angle<$t>>::div of a scalar by an angle: the
\* scalar is the left operand of the payload operation
ScalarMulOp(t, chk, s, a) ==
    IF MulPanics(t, chk, s, a.v) THEN Panic
    ELSE Ok([tag |-> a.tag, v |-> PMul(t, s, a.v)])

ScalarDivOp(t, chk, s, a) ==
    IF DivPanics(t, chk, s, a.v) THEN Panic
    ELSE Ok([tag |-> a.tag, v |-> PDiv(t, s, a.v)])

----------------------------------------------------------------------------
(* The inputs. *)

\* the floating-point value next below a finite f > 0
Pred(f) ==
    LET e == ExpOf(f)
    IN  IF e > 0 /\ f \div Pow2(e) = Pow2(PrecBits - 1) THEN f - Pow2(e - 1)
        ELSE f - Pow2(e)

\* every payload of a type (for the 16-bit type, up to MaxTurns turns of 360
\* either way, and its two extremes)
Payloads(t) ==
    IF IsFloat(t) THEN AllFloats
    ELSE IF t = "i16"
         THEN (-(MaxTurns * FullTurnDeg + 1)..(MaxTurns * FullTurnDeg + 1))
              \cup {IntMin(t), IntMax(t)}
    ELSE IntMin(t)..IntMax(t)

\* payloads for the operations of two operands (1 is the smallest positive
\* value of the floating-point type)
FloatSamples ==
    {FZero, 1, -1, 3, FOne, -FOne, FPi, Pred(FPi), FTwoPi, Pred(FTwoPi), -FTwoPi,
     F180, F360, -F360, MaxFin, -MaxFin, PosInf, NaN}

IntSamples(t) ==
    {n \in {0, 1, 2, 3, -1, -2, 6, 57, 90, 100, -100, HalfTurnDeg, FullTurnDeg,
            -FullTurnDeg, IntMin(t), IntMax(t)} : InRange(t, n)}

Samples(t) == IF IsFloat(t) THEN FloatSamples ELSE IntSamples(t)

\* payloads for the second operand of min_dist
FloatOthers == {FZero, 1, FOne, FPi, Pred(FTwoPi), FTwoPi, -F360, MaxFin, PosInf, NaN}

\* the radian values in [0, 2*pi)
NormalizedFloats == {f \in FiniteFloats : FGe(f, FZero) /\ FLt(f, FTwoPi)}

\* for a normalized Radians angle, every normalized Radians angle
NormalizedOthers(a) ==
    IF a.tag = "Radians" /\ a.v \in NormalizedFloats
    THEN {Radians(f) : f \in NormalizedFloats}
    ELSE {}

\* payloads for the equality checks, which take three angles
FloatFew == {FZero, 1, FOne, FPi, F360, F360 + Pow2(ExpOf(F360)), NaN}
IntFew(t) == {n \in {0, 1, 2, -1, 57, 58, 100} : InRange(t, n)}
Few(t) == IF IsFloat(t) THEN FloatFew ELSE IntFew(t)

AnglesOf(S) == { [tag |-> g, v |-> v] : g \in Tags, v \in S }

----------------------------------------------------------------------------
(* The state machine: one operation is applied to inputs of the type. *)

Init ==
    /\ ty \in Types
    /\ checks \in (IF IsFloat(ty) THEN {TRUE} ELSE BOOLEAN)
    /\ op = "init"
    /\ recv = NoAngle
    /\ rhs = NoAngle
    /\ third = NoAngle
    /\ x = 0
    /\ out = Unset
    /\ rel = NoRel

Unary(name, a, result) ==
    /\ op' = name
    /\ recv' = a
    /\ out' = result
    /\ UNCHANGED <<ty, checks, rhs, third, x, rel>>

Binary(name, a, b, result) ==
    /\ op' = name
    /\ recv' = a
    /\ rhs' = b
    /\ out' = result
    /\ UNCHANGED <<ty, checks, third, x, rel>>

Scalar(name, a, s, result) ==
    /\ op' = name
    /\ recv' = a
    /\ x' = s
    /\ out' = result
    /\ UNCHANGED <<ty, checks, rhs, third, rel>>

DoNormalized ==
    /\ op = "init"
    /\ \E a \in AnglesOf(Payloads(ty)) : Unary("normalized", a, Normalized(ty, a))

DoMinDist ==
    /\ op = "init"
    /\ IsFloat(ty)
    /\ \E a \in AnglesOf(Payloads(ty)) :
           \E b \in AnglesOf(FloatOthers) \cup NormalizedOthers(a) :
               Binary("min_dist", a, b, MinDist(ty, a, b))

DoEq ==
    /\ op = "init"
    /\ \E a \in AnglesOf(Few(ty)), b \in AnglesOf(Few(ty)), c \in AnglesOf(Few(ty)) :
           /\ op' = "eq"
           /\ recv' = a
           /\ rhs' = b
           /\ third' = c
           /\ rel' = [aa |-> AngleEq(ty, a, a), ab |-> AngleEq(ty, a, b),
                      ba |-> AngleEq(ty, b, a), bc |-> AngleEq(ty, b, c),
                      ac |-> AngleEq(ty, a, c)]
    /\ UNCHANGED <<ty, checks, x, out>>

DoAdd ==
    /\ op = "init"
    /\ \E a \in AnglesOf(Samples(ty)), b \in AnglesOf(Samples(ty)) :
           Binary("add", a, b, AddOp(ty, checks, a, b))

DoSub ==
    /\ op = "init"
    /\ \E a \in AnglesOf(Samples(ty)), b \in AnglesOf(Samples(ty)) :
           Binary("sub", a, b, SubOp(ty, checks, a, b))

DoAddAssign ==
    /\ op = "init"
    /\ \E a \in AnglesOf(Samples(ty)), b \in AnglesOf(Samples(ty)) :
           Binary("add_assign", a, b, AddAssignOp(ty, checks, a, b))

DoSubAssign ==
    /\ op = "init"
    /\ \E a \in AnglesOf(Samples(ty)), b \in AnglesOf(Samples(ty)) :
           Binary("sub_assign", a, b, SubAssignOp(ty, checks, a, b))

DoMul ==
    /\ op = "init"
    /\ \E a \in AnglesOf(Samples(ty)), s \in Samples(ty) :
           Scalar("mul", a, s, MulOp(ty, checks, a, s))

DoDiv ==
    /\ op = "init"
    /\ \E a \in AnglesOf(Samples(ty)), s \in Samples(ty) :
           Scalar("div", a, s, DivOp(ty, checks, a, s))

DoMulAssign ==
    /\ op = "init"
    /\ \E a \in AnglesOf(Samples(ty)), s \in Samples(ty) :
           Scalar("mul_assign", a, s, MulAssignOp(ty, checks, a, s))

DoDivAssign ==
    /\ op = "init"
    /\ \E a \in AnglesOf(Samples(ty)), s \in Samples(ty) :
           Scalar("div_assign", a, s, DivAssignOp(ty, checks, a, s))

DoScalarMul ==
    /\ op = "init"
    /\ \E a \in AnglesOf(Samples(ty)), s \in Samples(ty) :
           Scalar("scalar_mul", a, s, ScalarMulOp(ty, checks, s, a))

DoScalarDiv ==
    /\ op = "init"
    /\ \E a \in AnglesOf(Samples(ty)), s \in Samples(ty) :
           Scalar("scalar_div", a, s, ScalarDivOp(ty, checks, s, a))

Next ==
    \/ DoNormalized
    \/ DoMinDist
    \/ DoEq
    \/ DoAdd
    \/ DoSub
    \/ DoAddAssign
    \/ DoSubAssign
    \/ DoMul
    \/ DoDiv
    \/ DoMulAssign
    \/ DoDivAssign
    \/ DoScalarMul
    \/ DoScalarDiv

Spec == Init /\ [][Next]_vars

----------------------------------------------------------------------------
(* Normalization. *)

Returned == out.st = "ok"

\* the payload is a number (any integer; a float other than NaN and the
\* infinities)
FinitePayload(a) == ~IsFloat(ty) \/ IsFinite(a.v)

\* the upper end the claims name: 360 for Degrees, the payload type's value of
\* 2 * pi for Radians
ClaimedUpper(tag) ==
    IF IsFloat(ty) THEN (IF tag = "Radians" THEN FTwoPi ELSE F360)
    ELSE (IF tag = "Radians" THEN (2 * PiNum) \div PiDen ELSE FullTurnDeg)

\* C1: for every angle with a finite payload, the angle normalized() returns
\* has the tag of the angle and a payload v with 0 <= v < upper.
C1_NormalizedInRange ==
    (op = "normalized" /\ Returned /\ FinitePayload(recv)) =>
        /\ out.tag = recv.tag
        /\ PGe(ty, out.v, PZero(ty))
        /\ PLt(ty, out.v, ClaimedUpper(recv.tag))

\* the payload is k * upper for an integer k of at most MaxTurns either way
ExactMultiple(a) ==
    /\ FinitePayload(a)
    /\ \E k \in (-MaxTurns)..MaxTurns : a.v = k * ClaimedUpper(a.tag)

\* C2: normalizing an angle whose payload is exactly k * upper yields the
\* payload 0 with the same tag.
C2_ExactMultipleToZero ==
    (op = "normalized" /\ ExactMultiple(recv)) =>
        /\ Returned
        /\ out.tag = recv.tag
        /\ PEq(ty, out.v, PZero(ty))

\* C2, where normalized() returns: the exact multiples of upper go to 0.
C2_ExactMultipleToZeroWhenReturned ==
    (op = "normalized" /\ ExactMultiple(recv) /\ Returned) =>
        /\ out.tag = recv.tag
        /\ PEq(ty, out.v, PZero(ty))

\* C9: normalized() returns an angle for every payload type and payload.
C9_NormalizedNeverAborts ==
    op = "normalized" => Returned

----------------------------------------------------------------------------
(* Addition and subtraction. *)

BothDegrees == recv.tag = "Degrees" /\ rhs.tag = "Degrees"

\* the operands of the payload operation the additive rule names
LeftPayload == IF BothDegrees THEN recv.v ELSE InRadians(ty, recv)
RightPayload == IF BothDegrees THEN rhs.v ELSE InRadians(ty, rhs)
SumTag == IF BothDegrees THEN "Degrees" ELSE "Radians"

\* C3: a + b and a - b of two Degrees angles are Degrees(x op y) on the raw
\* payloads; in every other tag combination they are Radians of
\* a.in_radians() op b.in_radians().  The operation aborts exactly when the
\* payload operation does.
C3_AdditiveDispatch ==
    /\ op = "add" =>
         IF AddPanics(ty, checks, LeftPayload, RightPayload) THEN out = Panic
         ELSE /\ Returned
              /\ out.tag = SumTag
              /\ out.v = PAdd(ty, LeftPayload, RightPayload)
    /\ op = "sub" =>
         IF SubPanics(ty, checks, LeftPayload, RightPayload) THEN out = Panic
         ELSE /\ Returned
              /\ out.tag = SumTag
              /\ out.v = PSub(ty, LeftPayload, RightPayload)

\* a mixed-tag sum whose Degrees operand changes under the conversion
C3_Witness ==
    /\ op = "add"
    /\ recv.tag = "Degrees"
    /\ rhs.tag = "Radians"
    /\ Returned
    /\ out.tag = "Radians"
    /\ recv.v # InRadians(ty, recv)
    /\ out.v # PAdd(ty, recv.v, rhs.v)

\* C4: after a compound assignment the receiver equals, in tag and payload,
\* the result of the non-assigning operator; += and -= turn a Degrees receiver
\* into Radians exactly when the operand is Radians, *= and /= keep the tag.
C4_CompoundMatchesBinary ==
    /\ op = "add_assign" => out = AddOp(ty, checks, recv, rhs)
    /\ op = "sub_assign" => out = SubOp(ty, checks, recv, rhs)
    /\ op = "mul_assign" => out = MulOp(ty, checks, recv, x)
    /\ op = "div_assign" => out = DivOp(ty, checks, recv, x)
    /\ (op \in {"add_assign", "sub_assign"} /\ Returned /\ recv.tag = "Degrees") =>
           (out.tag = "Radians" <=> rhs.tag = "Radians")
    /\ (op \in {"mul_assign", "div_assign"} /\ Returned) => out.tag = recv.tag

\* a Degrees receiver that += with a Radians operand has turned into Radians
C4_Witness ==
    /\ op = "add_assign"
    /\ recv.tag = "Degrees"
    /\ rhs.tag = "Radians"
    /\ Returned
    /\ out.tag = "Radians"
    /\ out.v # recv.v

----------------------------------------------------------------------------
(* Multiplication and division by a scalar. *)

\* C5: a * x and a / x have the tag of a and the payload v * x and v / x, with
\* no unit conversion; they abort exactly when the payload operation does.
C5_ScalarOnRight ==
    /\ op = "mul" =>
         IF MulPanics(ty, checks, recv.v, x) THEN out = Panic
         ELSE /\ Returned
              /\ out.tag = recv.tag
              /\ out.v = PMul(ty, recv.v, x)
    /\ op = "div" =>
         IF DivPanics(ty, checks, recv.v, x) THEN out = Panic
         ELSE /\ Returned
              /\ out.tag = recv.tag
              /\ out.v = PDiv(ty, recv.v, x)

\* a Degrees angle divided by a scalar, the quotient differing from the one
\* of its radian value
C5_Witness ==
    /\ op = "div"
    /\ recv.tag = "Degrees"
    /\ Returned
    /\ out.tag = "Degrees"
    /\ out.v # recv.v
    /\ ~DivPanics(ty, checks, InRadians(ty, recv), x)
    /\ out.v # PDiv(ty, InRadians(ty, recv), x)

\* C6 as claimed: x * a equals a * x and x / a equals a / x (recv is the angle
\* a, x the scalar on the left).
C6_ScalarOnLeftCommutes ==
    /\ op = "scalar_mul" => out = MulOp(ty, checks, recv, x)
    /\ op = "scalar_div" => out = DivOp(ty, checks, recv, x)

\* C6 as amended: x * a equals a * x; x / a has the tag of a and the payload
\* x / v, the scalar divided by the payload, and aborts exactly when x / v does.
C6_ScalarOnLeft ==
    /\ op = "scalar_mul" => out = MulOp(ty, checks, recv, x)
    /\ op = "scalar_div" =>
         IF DivPanics(ty, checks, x, recv.v) THEN out = Panic
         ELSE /\ Returned
              /\ out.tag = recv.tag
              /\ out.v = PDiv(ty, x, recv.v)

\* a scalar divided by an angle, which is not the angle divided by the scalar
C6_Witness ==
    /\ op = "scalar_div"
    /\ Returned
    /\ recv.v # 0
    /\ x # 0
    /\ out.tag = recv.tag
    /\ out # DivOp(ty, checks, recv, x)

----------------------------------------------------------------------------
(* Minimal distance. *)

RadA == InRadians(ty, recv)
RadB == InRadians(ty, rhs)
Dist == FAbs(FSub(RadA, RadB))

UlpPi == Pow2(ExpOf(FPi))

\* C8 as claimed: for radian values both in [0, 2*pi), the fast path's
\* result equals the general path's.
C8_PathsAgree ==
    (op = "min_dist" /\ BothNormalized(RadA, RadB)) =>
        /\ out.v = FastPath(Dist)
        /\ out.v = GeneralPath(Dist)

\* C8 as amended: for radian values both in [0, 2*pi), the result is the fast
\* path's; it equals the general path's when d >= pi and differs from it by at
\* most one unit in the last place of pi when d < pi.
C8_PathsAgreeWithinUlp ==
    (op = "min_dist" /\ BothNormalized(RadA, RadB)) =>
        /\ out.v = FastPath(Dist)
        /\ FGe(Dist, FPi) => out.v = GeneralPath(Dist)
        /\ AbsInt(out.v - GeneralPath(Dist)) <= UlpPi

\* two normalized angles on which the two paths differ
C8_Witness ==
    /\ op = "min_dist"
    /\ BothNormalized(RadA, RadB)
    /\ out.v = FastPath(Dist)
    /\ out.v # GeneralPath(Dist)
    /\ FLt(FZero, Dist)

----------------------------------------------------------------------------
(* Equality. *)

\* C10: == on angles whose payloads are not NaN is reflexive, symmetric and
\* transitive, whatever the tags.
C10_EqIsEquivalence ==
    (op = "eq" /\ ~(IsFloat(ty) /\ (IsNaN(recv.v) \/ IsNaN(rhs.v) \/ IsNaN(third.v)))) =>
        /\ rel.aa
        /\ rel.ab => rel.ba
        /\ (rel.ab /\ rel.bc) => rel.ac

====
